---- MODULE Spec2Model ----
(***************************************************************************)
(* The upload pipeline of the document-management backend:                 *)
(*   upload_document      (Backend/main.py)                                *)
(*   validate_file_type   (Backend/utils/file_validator.py)                *)
(*   save_file_to_disk    (Backend/main.py)                                *)
(* Each request is one asyncio task.  A task's pc names the await at which *)
(* it is suspended; an action performs the awaited operation and the       *)
(* synchronous code that follows it, up to the next await.                 *)
(*                                                                         *)
(* Sizes are scaled: a byte of the model stands for a block of the real    *)
(* stream.  The order  signature length <= CHUNK_SIZE_FOR_VALIDATION <     *)
(* CHUNK_SIZE < MAX_FILE_SIZE  and  MAX_FILE_SIZE being a whole number of  *)
(* chunks are kept from the source.                                        *)
(***************************************************************************)
EXTENDS Integers, Sequences, FiniteSets, TLC

\* ------------------------------------------------------------ constants

\* main.py:38  MAX_FILE_SIZE = 15 * 1024 * 1024 (scaled: 15 chunks -> 3 chunks)
MAX_FILE_SIZE == 15
\* main.py:39  CHUNK_SIZE = 1024 * 1024 (scaled)
CHUNK_SIZE == 5
\* file_validator.py:25  CHUNK_SIZE_FOR_VALIDATION = 2048 (scaled)
CHUNK_SIZE_FOR_VALIDATION == 4

\* Bounds of the model.
\* How many times a client sends its upload again.
MaxResend == 1
\* By how many bytes beyond one chunk a stream may exceed MAX_FILE_SIZE.
MaxOver == 1

PDF_MIME == "application/pdf"
DOCX_MIME == "application/vnd.openxmlformats-officedocument.wordprocessingml.document"
TXT_MIME == "text/plain"
ZIP_MIME == "application/zip"
OCTET_MIME == "application/octet-stream"
EMPTY_MIME == "application/x-empty"
EXE_MIME == "application/x-dosexec"

ALLOWED_MIME_TYPES == {PDF_MIME, DOCX_MIME, TXT_MIME}

ALLOWED_EXTENSIONS == {".pdf", ".docx", ".txt"}

\* b"%PDF" and b"PK\x03\x04"
PDF_SIG == <<37, 80, 68, 70>>
ZIP_SIG == <<80, 75, 3, 4>>

\* The dict, in its insertion order.
FILE_SIGNATURES == << <<PDF_SIG, PDF_MIME>>, <<ZIP_SIG, DOCX_MIME>> >>

None == "None"

\* file_path before save_file_to_disk has computed it.
NoPath == << >>

Tasks == {1, 2}

\* ------------------------------------------------------- pure functions

Min(a, b) == IF a < b THEN a ELSE b

\* A read that starts over: the stream is rewound before every read.
StreamRead_FromStart(data, p, n) == SubSeq(data, 1, Min(n, Len(data)))

\* UploadFile.read(n) at position p: at most n bytes, empty at the end.
StreamRead(data, p, n) == SubSeq(data, p + 1, Min(p + n, Len(data)))

\* bytes.startswith
StartsWith(bytes, sig) ==
    /\ Len(bytes) >= Len(sig)
    /\ SubSeq(bytes, 1, Len(sig)) = sig

\* Path(filename).suffix
Suffix(filename) ==
    CASE filename = "report.pdf" -> ".pdf"
      [] filename = "REPORT.PDF" -> ".PDF"
      [] filename = "notes.txt" -> ".txt"
      [] filename = "letter.docx" -> ".docx"
      [] filename = "data.exe" -> ".exe"
      [] OTHER -> ""

\* str.lower on a suffix
Lower(ext) == IF ext = ".PDF" THEN ".pdf" ELSE ext

\* mimetypes.guess_type(filename)[0]
GuessType(filename) ==
    CASE Lower(Suffix(filename)) = ".pdf" -> PDF_MIME
      [] Lower(Suffix(filename)) = ".txt" -> TXT_MIME
      [] Lower(Suffix(filename)) = ".docx" -> DOCX_MIME
      [] Lower(Suffix(filename)) = ".exe" -> EXE_MIME
      [] OTHER -> None

\* magic.from_buffer(content_chunk, mime=True): the types libmagic can report
\* for a prefix.  What it reports for a ZIP container depends on bytes after
\* the signature: a Word document is reported as itself, as a ZIP archive or
\* as binary data; a plain archive is never reported as a Word document.
MagicFromBuffer(format, bytes) ==
    CASE bytes = << >> -> {EMPTY_MIME}
      [] StartsWith(bytes, PDF_SIG) -> {PDF_MIME}
      [] StartsWith(bytes, ZIP_SIG) ->
            IF format = "docx" THEN {DOCX_MIME, ZIP_MIME, OCTET_MIME}
            ELSE {ZIP_MIME}
      [] OTHER -> IF format = "text" THEN {TXT_MIME} ELSE {EXE_MIME, OCTET_MIME}

\* The loop over FILE_SIGNATURES, from entry i on: the first signature the
\* prefix starts with whose type is allowed, or None.
RECURSIVE SignatureFrom(_, _)
SignatureFrom(bytes, i) ==
    IF i > Len(FILE_SIGNATURES) THEN None
    ELSE IF /\ StartsWith(bytes, FILE_SIGNATURES[i][1])
            /\ FILE_SIGNATURES[i][2] \in ALLOWED_MIME_TYPES
         THEN FILE_SIGNATURES[i][2]
         ELSE SignatureFrom(bytes, i + 1)

SignatureTier(bytes) == SignatureFrom(bytes, 1)

\* A third tier without its gate: any extension goes on to the MIME lookup.
ExtensionAllowed_NoGate(ext) == TRUE

\* file_extension not in ALLOWED_EXTENSIONS is the gate of the third tier.
ExtensionAllowed(ext) == ext \in ALLOWED_EXTENSIONS

\* extension_to_mime.get(file_extension, "application/octet-stream")
ExtensionToMime(ext) ==
    CASE ext = ".pdf" -> PDF_MIME
      [] ext = ".docx" -> DOCX_MIME
      [] ext = ".txt" -> TXT_MIME
      [] OTHER -> OCTET_MIME

Reject == "Reject"

\* The third tier: Reject, or the MIME type it returns.
ExtensionTier(filename, content_type) ==
    LET file_extension == Lower(Suffix(filename))
        mime_type == IF content_type # None THEN content_type
                     ELSE GuessType(filename)
    IN  IF ~ExtensionAllowed(file_extension) THEN Reject
        ELSE IF mime_type # None /\ mime_type \in ALLOWED_MIME_TYPES
             THEN mime_type
             ELSE ExtensionToMime(file_extension)

\* A handler that does not rewind: the stream stays where the failed tier
\* left it.
PosAfterMagicFailure_NoSeek(p) == p

\* file.seek(0) after the detector has run (line 64), in the handler of a
\* failed first tier (line 79) and after the second tier's read (line 84).
PosAfterMagicTier(p) == 0
PosAfterMagicFailure(p) == 0
PosAfterSignatureRead(p) == 0

\* user_folder / f"{file_id}{file_extension}"
FilePath(owner, file_id, ext) == <<owner, file_id, ext>>

\* mkdir without exist_ok: an existing directory raises FileExistsError.
MkdirRaisesOnExisting_NoExistOk(ds, owner) == owner \in ds

\* user_folder.mkdir(parents=True, exist_ok=True): an existing directory is
\* no error.
MkdirRaisesOnExisting(ds, owner) == FALSE

\* A loop that does not count the chunk before it compares and writes.
RunningTotal_NotCounted(total_bytes_written, bytes) == total_bytes_written

\* total_bytes_written += len(chunk), before the comparison and the write.
RunningTotal(total_bytes_written, bytes) == total_bytes_written + Len(bytes)

\* A comparison that is off by one: a total equal to the limit is over it.
OverBudget_AtLimit(n) == n >= MAX_FILE_SIZE

\* if total_bytes_written > MAX_FILE_SIZE
OverBudget(n) == n > MAX_FILE_SIZE

\* The file system under UPLOAD_DIR: a set of files, one per path.
Exists(fs, p) == \E f \in fs : f.path = p

Content(fs, p) == (CHOOSE f \in fs : f.path = p).data

\* os.remove(file_path)
Remove(fs, p) == {f \in fs : f.path # p}

\* A handler that raises the 500 without cleaning up.
RemoveIfExists_NoCleanup(fs, p) == fs

\* if os.path.exists(file_path): os.remove(file_path)
RemoveIfExists(fs, p) == IF Exists(fs, p) THEN Remove(fs, p) ELSE fs

\* open(file_path, "wb"): creates the file, or truncates it.
Create(fs, p) == Remove(fs, p) \cup {[path |-> p, data |-> << >>]}

\* f.write(chunk) through an open handle; a handle whose name was removed
\* writes to no named file.
WriteBytes(fs, p, bytes) ==
    {IF f.path = p THEN [f EXCEPT !.data = @ \o bytes] ELSE f : f \in fs}

\* --------------------------------------------------------------- inputs

\* The leading bytes of each kind of content.  A Word document is a ZIP
\* container, so it starts as a plain archive does.
Header(format) ==
    CASE format = "pdf" -> PDF_SIG
      [] format = "zip" -> ZIP_SIG
      [] format = "docx" -> ZIP_SIG
      [] format = "text" -> <<104, 101, 108, 108>>
      [] OTHER -> <<77, 90, 144, 0>>

\* A stream of n bytes of a format: its header, then a byte per position.
StreamOf(format, n) ==
    [i \in 1..n |-> IF i <= Len(Header(format)) THEN Header(format)[i] ELSE 100 + i]

Formats == {"pdf", "zip", "docx", "text", "exe"}

Filenames == {"", "report.pdf", "REPORT.PDF", "notes.txt", "letter.docx", "data.exe"}

ContentTypes == {None, TXT_MIME, OCTET_MIME}

OWNER == "alice"

Request(fm, n, fn, ct) ==
    [format |-> fm, data |-> StreamOf(fm, n), filename |-> fn,
     content_type |-> ct, owner |-> OWNER]

\* An empty upload and one shorter than a signature.
ShortLens == {0, 2}

\* An upload of two chunks, the second one partial.
MidLen == CHUNK_SIZE + 2

\* Uploads at and over the limit.
LongLens == {MAX_FILE_SIZE} \cup {MAX_FILE_SIZE + k : k \in 1..MaxOver}

Requests ==
    {Request(fm, MidLen, fn, ct) :
        fm \in Formats, fn \in Filenames, ct \in ContentTypes}
    \cup {Request("text", n, fn, ct) :
        n \in ShortLens, fn \in Filenames, ct \in ContentTypes}
    \cup {Request(fm, n, "notes.txt", None) : fm \in {"text"}, n \in LongLens}

\* The uploads two clients send at once.
ConcurrentRequests ==
    {Request("pdf", n, "report.pdf", None) : n \in {MidLen, MAX_FILE_SIZE + 1}}

NoReq == [format |-> None, data |-> << >>, filename |-> "",
          content_type |-> None, owner |-> None]

\* ---------------------------------------------------------------- state

VARIABLES
    MAGIC_AVAILABLE,   \* whether import magic succeeded
    req,               \* the upload each task handles
    pc,                \* the await each task is suspended at
    pos,               \* the position of each task's stream
    chunk,             \* content_chunk / chunk: the bytes a task holds
    detected,          \* detected_mime_type
    exc,               \* the exception in flight in a task
    mime,              \* validated_mime_type
    path,              \* file_path
    total,             \* total_bytes_written
    resp,              \* what the client got
    resend,            \* how many times each client will send its upload again
    nextId,            \* uuid.uuid4(): the identifiers handed out so far
    dirs,              \* the owner directories under UPLOAD_DIR
    files,             \* the files under UPLOAD_DIR
    db,                \* the committed Document rows
    swallowed,         \* what the first tier's handler caught
    log                \* the finished runs of save_file_to_disk

vars == <<MAGIC_AVAILABLE, req, pc, pos, chunk, detected, exc, mime, path,
          total, resp, resend, nextId, dirs, files, db, swallowed, log>>

NoResp == [kind |-> None, status |-> 0, detail |-> None, arg |-> None]

\* The state of a task before its request is handled.
Fresh(u) ==
    /\ pos' = [pos EXCEPT ![u] = 0]
    /\ chunk' = [chunk EXCEPT ![u] = << >>]
    /\ detected' = [detected EXCEPT ![u] = None]
    /\ exc' = [exc EXCEPT ![u] = None]
    /\ mime' = [mime EXCEPT ![u] = None]
    /\ path' = [path EXCEPT ![u] = NoPath]
    /\ total' = [total EXCEPT ![u] = 0]
    /\ resp' = [resp EXCEPT ![u] = NoResp]
    /\ swallowed' = [swallowed EXCEPT ![u] = None]

InitCommon ==
    /\ MAGIC_AVAILABLE \in BOOLEAN
    /\ pos = [u \in Tasks |-> 0]
    /\ chunk = [u \in Tasks |-> << >>]
    /\ detected = [u \in Tasks |-> None]
    /\ exc = [u \in Tasks |-> None]
    /\ mime = [u \in Tasks |-> None]
    /\ path = [u \in Tasks |-> NoPath]
    /\ total = [u \in Tasks |-> 0]
    /\ resp = [u \in Tasks |-> NoResp]
    /\ swallowed = [u \in Tasks |-> None]
    /\ nextId = 1
    /\ dirs = {}
    /\ files = {}
    /\ db = {}
    /\ log = {}

\* One client sends one upload.
InitSingle ==
    /\ InitCommon
    /\ \E r \in Requests : req = [u \in Tasks |-> IF u = 1 THEN r ELSE NoReq]
    /\ pc = [u \in Tasks |-> IF u = 1 THEN "recv" ELSE "idle"]
    /\ resend = [u \in Tasks |-> IF u = 1 THEN MaxResend ELSE 0]

\* Two clients of one owner, whose directory does not exist yet, send an
\* upload each at the same time.
InitConcurrent ==
    /\ InitCommon
    /\ req \in [Tasks -> ConcurrentRequests]
    /\ pc = [u \in Tasks |-> "recv"]
    /\ resend = [u \in Tasks |-> 0]

Init == InitSingle \/ InitConcurrent

\* -------------------------------------------------------------- actions

Response(kind, status, detail, arg) ==
    [kind |-> kind, status |-> status, detail |-> detail, arg |-> arg]

\* The request ends and the client gets r.
Respond(u, r) ==
    /\ resp' = [resp EXCEPT ![u] = r]
    /\ pc' = [pc EXCEPT ![u] = "done"]

\* An exception that is no HTTPException leaves upload_document: the
\* framework answers 500.
Unhandled(cause) == Response("unhandled", 500, "Internal Server Error", cause)

\* A third tier whose rejection does not stop the request.
Rejected_Ignored(result) == FALSE

\* raise HTTPException(...) of the third tier: the upload is rejected.
Rejected(result) == result = Reject

\* upload_document up to the first await of validate_file_type.
ReceiveUpload(u) ==
    /\ pc[u] = "recv"
    /\ IF req[u].filename = ""
       THEN Respond(u, Response("HTTPException", 400, "No filename provided.", None))
       ELSE /\ pc' = [pc EXCEPT ![u] = IF MAGIC_AVAILABLE THEN "t1" ELSE "t2"]
            /\ resp' = resp
    /\ UNCHANGED <<MAGIC_AVAILABLE, req, pos, chunk, detected, exc, mime, path,
                   total, resend, nextId, dirs, files, db, swallowed, log>>

\* First tier: file.read(CHUNK_SIZE_FOR_VALIDATION), then magic.from_buffer.
\* Either may raise; the handler of the tier catches it.
MagicRead(u) ==
    /\ pc[u] = "t1"
    /\ \/ /\ exc' = [exc EXCEPT ![u] = "OSError"]
          /\ pc' = [pc EXCEPT ![u] = "t1_except"]
          /\ UNCHANGED <<pos, chunk, detected>>
       \/ LET content_chunk == StreamRead(req[u].data, pos[u], CHUNK_SIZE_FOR_VALIDATION)
          IN  /\ chunk' = [chunk EXCEPT ![u] = content_chunk]
              /\ pos' = [pos EXCEPT ![u] = @ + Len(content_chunk)]
              /\ \/ /\ exc' = [exc EXCEPT ![u] = "MagicException"]
                    /\ pc' = [pc EXCEPT ![u] = "t1_except"]
                    /\ UNCHANGED detected
                 \/ \E d \in MagicFromBuffer(req[u].format, content_chunk) :
                       /\ detected' = [detected EXCEPT ![u] = d]
                       /\ pc' = [pc EXCEPT ![u] = "t1_seek"]
                       /\ UNCHANGED exc
    /\ UNCHANGED <<MAGIC_AVAILABLE, req, mime, path, total, resp, resend, nextId,
                   dirs, files, db, swallowed, log>>

\* First tier: file.seek(0), then the decision.  The HTTPException raised for
\* a type that is not allowed is raised inside the try block.
MagicSeek(u) ==
    /\ pc[u] = "t1_seek"
    /\ pos' = [pos EXCEPT ![u] = PosAfterMagicTier(@)]
    /\ IF detected[u] \in ALLOWED_MIME_TYPES
       THEN /\ mime' = [mime EXCEPT ![u] = detected[u]]
            /\ pc' = [pc EXCEPT ![u] = "validated"]
            /\ UNCHANGED exc
       ELSE /\ exc' = [exc EXCEPT ![u] = "HTTP400"]
            /\ pc' = [pc EXCEPT ![u] = "t1_except"]
            /\ UNCHANGED mime
    /\ UNCHANGED <<MAGIC_AVAILABLE, req, chunk, detected, path, total, resp,
                   resend, nextId, dirs, files, db, swallowed, log>>

\* except Exception as e: print, file.seek(0), and on to the second tier.
MagicFailed(u) ==
    /\ pc[u] = "t1_except"
    /\ swallowed' = [swallowed EXCEPT ![u] = exc[u]]
    /\ exc' = [exc EXCEPT ![u] = None]
    /\ pos' = [pos EXCEPT ![u] = PosAfterMagicFailure(@)]
    /\ pc' = [pc EXCEPT ![u] = "t2"]
    /\ UNCHANGED <<MAGIC_AVAILABLE, req, chunk, detected, mime, path, total,
                   resp, resend, nextId, dirs, files, db, log>>

\* Second tier: file.read(CHUNK_SIZE_FOR_VALIDATION), outside any try.
SignatureRead(u) ==
    /\ pc[u] = "t2"
    /\ \/ /\ Respond(u, Unhandled("OSError"))
          /\ UNCHANGED <<pos, chunk>>
       \/ LET content_chunk == StreamRead(req[u].data, pos[u], CHUNK_SIZE_FOR_VALIDATION)
          IN  /\ chunk' = [chunk EXCEPT ![u] = content_chunk]
              /\ pos' = [pos EXCEPT ![u] = @ + Len(content_chunk)]
              /\ pc' = [pc EXCEPT ![u] = "t2_seek"]
              /\ UNCHANGED resp
    /\ UNCHANGED <<MAGIC_AVAILABLE, req, detected, exc, mime, path, total, resend,
                   nextId, dirs, files, db, swallowed, log>>

\* Second tier: file.seek(0) and the signature table; then the third tier,
\* which awaits nothing.
SignatureSeek(u) ==
    /\ pc[u] = "t2_seek"
    /\ pos' = [pos EXCEPT ![u] = PosAfterSignatureRead(@)]
    /\ LET bySignature == SignatureTier(chunk[u])
           byExtension == ExtensionTier(req[u].filename, req[u].content_type)
       IN  IF bySignature # None
           THEN /\ mime' = [mime EXCEPT ![u] = bySignature]
                /\ pc' = [pc EXCEPT ![u] = "validated"]
                /\ UNCHANGED resp
           ELSE IF Rejected(byExtension)
           THEN /\ Respond(u, Response("HTTPException", 400,
                                       "Invalid file type. Allowed file types",
                                       None))
                /\ UNCHANGED mime
           ELSE /\ mime' = [mime EXCEPT ![u] = byExtension]
                /\ pc' = [pc EXCEPT ![u] = "validated"]
                /\ UNCHANGED resp
    /\ UNCHANGED <<MAGIC_AVAILABLE, req, chunk, detected, exc, path, total, resend,
                   nextId, dirs, files, db, swallowed, log>>

\* A finished run of save_file_to_disk: what it was to write and where, how
\* it ended, and the count it returned.
Run(u, p, outcome) ==
    [task |-> u, path |-> p, outcome |-> outcome,
     n |-> IF outcome = "returned" THEN total[u] ELSE -1]

\* save_file_to_disk up to its first await: uuid4, the owner's directory and
\* the destination path.  mkdir is outside the try block.
StoreBegin(u) ==
    /\ pc[u] = "validated"
    /\ nextId' = nextId + 1
    /\ LET p == FilePath(req[u].owner, nextId, Suffix(req[u].filename))
       IN  \/ /\ dirs' = dirs \cup {req[u].owner}
              /\ IF req[u].owner \in dirs /\ MkdirRaisesOnExisting(dirs, req[u].owner)
                 THEN /\ Respond(u, Unhandled("FileExistsError"))
                      /\ log' = log \cup {Run(u, p, "raised")}
                      /\ UNCHANGED path
                 ELSE /\ path' = [path EXCEPT ![u] = p]
                      /\ pc' = [pc EXCEPT ![u] = "open"]
                      /\ UNCHANGED <<resp, log>>
           \/ /\ Respond(u, Unhandled("OSError"))
              /\ log' = log \cup {Run(u, p, "raised")}
              /\ UNCHANGED <<dirs, path>>
    /\ total' = [total EXCEPT ![u] = 0]
    /\ UNCHANGED <<MAGIC_AVAILABLE, req, pos, chunk, detected, exc, mime, resend,
                   files, db, swallowed>>

\* The handler of save_file_to_disk, entered with the files fs on disk:
\* remove what is there, raise the 500.
StorageError(u, cause, fs) ==
    /\ files' = RemoveIfExists(fs, path[u])
    /\ Respond(u, Response("HTTPException", 500, "Could not save file", cause))
    /\ log' = log \cup {Run(u, path[u], "raised")}

\* aiofiles.open(file_path, "wb"); a failing open may have created the file.
OpenFile(u) ==
    /\ pc[u] = "open"
    /\ \/ /\ files' = Create(files, path[u])
          /\ pc' = [pc EXCEPT ![u] = "read"]
          /\ UNCHANGED <<resp, log>>
       \/ \E fs \in {files, Create(files, path[u])} : StorageError(u, "OSError", fs)
    /\ UNCHANGED <<MAGIC_AVAILABLE, req, pos, chunk, detected, exc, mime, path,
                   total, resend, nextId, dirs, db, swallowed>>

\* chunk := await file.read(CHUNK_SIZE), the running total and the comparison.
ReadChunk(u) ==
    /\ pc[u] = "read"
    /\ \/ /\ exc' = [exc EXCEPT ![u] = "OSError"]
          /\ pc' = [pc EXCEPT ![u] = "aexit"]
          /\ UNCHANGED <<pos, chunk, total>>
       \/ LET bytes == StreamRead(req[u].data, pos[u], CHUNK_SIZE)
          IN  /\ chunk' = [chunk EXCEPT ![u] = bytes]
              /\ pos' = [pos EXCEPT ![u] = @ + Len(bytes)]
              /\ UNCHANGED exc
              /\ IF bytes = << >>
                 THEN /\ pc' = [pc EXCEPT ![u] = "aexit"]
                      /\ UNCHANGED total
                 ELSE /\ total' = [total EXCEPT ![u] = RunningTotal(@, bytes)]
                      /\ pc' = [pc EXCEPT ![u] =
                                  IF OverBudget(total'[u]) THEN "abort" ELSE "write"]
    /\ UNCHANGED <<MAGIC_AVAILABLE, req, detected, mime, path, resp, resend,
                   nextId, dirs, files, db, swallowed, log>>

\* await f.write(chunk); a failing write may have written part of the chunk.
WriteChunk(u) ==
    /\ pc[u] = "write"
    /\ \/ /\ files' = WriteBytes(files, path[u], chunk[u])
          /\ pc' = [pc EXCEPT ![u] = "read"]
          /\ UNCHANGED exc
       \/ /\ exc' = [exc EXCEPT ![u] = "OSError"]
          /\ pc' = [pc EXCEPT ![u] = "aexit"]
          /\ \E k \in {0, 1} :
                files' = WriteBytes(files, path[u], SubSeq(chunk[u], 1, k))
    /\ UNCHANGED <<MAGIC_AVAILABLE, req, pos, chunk, detected, mime, path, total,
                   resp, resend, nextId, dirs, db, swallowed, log>>

\* Over the limit: await f.close(), os.remove(file_path) and the raise of the
\* 413, inside the try block.  os.remove of a missing file raises instead.
AbortTooLarge(u) ==
    /\ pc[u] = "abort"
    /\ files' = Remove(files, path[u])
    /\ exc' = [exc EXCEPT ![u] =
                  IF Exists(files, path[u]) THEN "HTTP413" ELSE "OSError"]
    /\ pc' = [pc EXCEPT ![u] = "aexit"]
    /\ UNCHANGED <<MAGIC_AVAILABLE, req, pos, chunk, detected, mime, path, total,
                   resp, resend, nextId, dirs, db, swallowed, log>>

\* except Exception catches every exception class but the BaseException-only
\* ones; asyncio.CancelledError is one of those.
CaughtByExceptException(e) == e # "CancelledError"

\* The exit of the async with block (the file is closed, which may fail
\* when nothing else has), and what follows: the return, the handler, or the
\* propagation of what the handler lets pass.
ExitFile(u) ==
    /\ pc[u] = "aexit"
    /\ IF exc[u] = None
       THEN \/ /\ pc' = [pc EXCEPT ![u] = "stored"]
               /\ log' = log \cup {Run(u, path[u], "returned")}
               /\ UNCHANGED <<files, resp>>
            \/ StorageError(u, "OSError", files)
       ELSE IF CaughtByExceptException(exc[u])
       THEN StorageError(u, exc[u], files)
       ELSE /\ Respond(u, Response("cancelled", 0, None, None))
            /\ log' = log \cup {Run(u, path[u], "cancelled")}
            /\ UNCHANGED files
    /\ exc' = [exc EXCEPT ![u] = None]
    /\ UNCHANGED <<MAGIC_AVAILABLE, req, pos, chunk, detected, mime, path, total,
                   resend, nextId, dirs, db, swallowed>>

\* The request's task is cancelled while it waits for the stream or the disk.
Cancel(u) ==
    /\ pc[u] \in {"read", "write"}
    /\ exc' = [exc EXCEPT ![u] = "CancelledError"]
    /\ pc' = [pc EXCEPT ![u] = "aexit"]
    /\ UNCHANGED <<MAGIC_AVAILABLE, req, pos, chunk, detected, mime, path, total,
                   resp, resend, nextId, dirs, files, db, swallowed, log>>

\* Document(...), db.add, db.commit, db.refresh; a failing commit is no
\* HTTPException.
PersistRecord(u) ==
    /\ pc[u] = "stored"
    /\ \/ LET doc == [user_id |-> req[u].owner,
                      original_filename |-> req[u].filename,
                      file_path |-> path[u], file_size |-> total[u],
                      mime_type |-> mime[u], status |-> "pending"]
          IN  /\ db' = db \cup {doc}
              /\ Respond(u, Response("ok", 200, "Document", None))
       \/ /\ Respond(u, Unhandled("SQLAlchemyError"))
          /\ UNCHANGED db
    /\ UNCHANGED <<MAGIC_AVAILABLE, req, pos, chunk, detected, exc, mime, path,
                   total, resend, nextId, dirs, files, swallowed, log>>

\* The client sends the same upload again, as a new request with a fresh
\* stream.
Retry(u) ==
    /\ pc[u] = "done"
    /\ resend[u] > 0
    /\ resend' = [resend EXCEPT ![u] = @ - 1]
    /\ Fresh(u)
    /\ pc' = [pc EXCEPT ![u] = "recv"]
    /\ UNCHANGED <<MAGIC_AVAILABLE, req, nextId, dirs, files, db, log>>

Next ==
    \E u \in Tasks :
        \/ ReceiveUpload(u)
        \/ MagicRead(u)
        \/ MagicSeek(u)
        \/ MagicFailed(u)
        \/ SignatureRead(u)
        \/ SignatureSeek(u)
        \/ StoreBegin(u)
        \/ OpenFile(u)
        \/ ReadChunk(u)
        \/ WriteChunk(u)
        \/ AbortTooLarge(u)
        \/ ExitFile(u)
        \/ Cancel(u)
        \/ PersistRecord(u)
        \/ Retry(u)

Spec == Init /\ [][Next]_vars

\* --------------------------------------------------------------- claims

\* The awaits of save_file_to_disk, and the point after its return.
StorePcs == {"open", "read", "write", "abort", "aexit", "stored"}

\* The request of u ended with a rejection raised by validate_file_type.
ClassifierRejected(u) ==
    /\ pc[u] = "done"
    /\ resp[u].kind = "HTTPException"
    /\ resp[u].status = 400
    /\ resp[u].detail # "No filename provided."

\* The bytes of u's stream that save_file_to_disk has written so far.
Written(u) ==
    IF pc[u] \in {"write", "abort"} THEN pos[u] - Len(chunk[u]) ELSE pos[u]

\* C1: when the running total has exceeded MAX_FILE_SIZE, the rejection the
\* client gets is the 413 whose message reports the limit.
C1_TooLargeIs413 ==
    \A u \in Tasks :
        (pc[u] = "done" /\ total[u] > MAX_FILE_SIZE)
            => /\ resp[u].kind = "HTTPException"
               /\ resp[u].status = 413
               /\ resp[u].detail = "File too large. Maximum size is 15 MB."

\* C2: a run of save_file_to_disk that returned (path, n) left the whole
\* stream, n bytes, at path; a run that raised (size limit, I/O failure)
\* left no file at its path; and when every run so far raised and none is
\* under way, nothing is left under the owner's directory.
C2_AllOrNothing ==
    /\ \A r \in log :
          /\ r.outcome = "returned" =>
                /\ Exists(files, r.path)
                /\ Content(files, r.path) = req[r.task].data
                /\ Len(Content(files, r.path)) = r.n
          /\ r.outcome = "raised" => ~Exists(files, r.path)
    /\ ( /\ \A r \in log : r.outcome = "raised"
         /\ \A u \in Tasks : pc[u] \notin StorePcs )
       => files = {}

\* C2's case: the same upload, over the limit, was sent twice, both runs
\* wrote chunks and raised, and nothing is left.
C2_Witness ==
    /\ pc[1] = "done"
    /\ Len(req[1].data) > MAX_FILE_SIZE
    /\ Cardinality({r \in log : r.task = 1 /\ r.outcome = "raised"}) = 2
    /\ resp[1].arg = "HTTP413"
    /\ files = {}

\* C3: a run of save_file_to_disk that ended by cancellation left no file at
\* its path.
C3_CancelLeavesNoFile ==
    \A r \in log : r.outcome = "cancelled" => ~Exists(files, r.path)

\* C4: once the detector has reported a type that is not allowed, the upload
\* is rejected with the 400 that names the type; the second and third tier
\* are not entered.
C4_DetectedTypeRejects ==
    \A u \in Tasks :
        (detected[u] # None /\ detected[u] \notin ALLOWED_MIME_TYPES)
            => /\ pc[u] \in {"t1_seek", "t1_except", "done"}
               /\ pc[u] = "done" =>
                     /\ resp[u].status = 400
                     /\ resp[u].arg = detected[u]

\* C5: the type validate_file_type returns, and every type recorded with a
\* document, is one of ALLOWED_MIME_TYPES.
C5_AcceptedTypeAllowed ==
    /\ \A u \in Tasks : mime[u] # None => mime[u] \in ALLOWED_MIME_TYPES
    /\ \A d \in db : d.mime_type \in ALLOWED_MIME_TYPES

\* C5's case: an upload accepted by the last resort of the third tier, the
\* extension table, after the declared type was of no use.
C5_Witness ==
    \E u \in Tasks :
        /\ mime[u] = PDF_MIME
        /\ req[u].filename = "REPORT.PDF"
        /\ req[u].content_type = OCTET_MIME
        /\ SignatureTier(chunk[u]) = None
        /\ pc[u] = "validated"

\* C6: an upload whose content is a plain ZIP archive is never accepted.
C6_PlainZipRejected ==
    \A u \in Tasks :
        (req[u].format = "zip" /\ StartsWith(req[u].data, ZIP_SIG))
            => mime[u] = None

\* C7: the stream is at byte 0 where a tier is about to read the prefix and
\* where validate_file_type has returned; what save_file_to_disk then writes
\* is the stream from byte 0 on, and all of it when it returns.
C7_StreamRewound ==
    /\ \A u \in Tasks : pc[u] \in {"t1", "t2", "validated"} => pos[u] = 0
    /\ \A u \in Tasks :
          (pc[u] \in {"read", "write", "abort"} /\ Exists(files, path[u]))
              => Content(files, path[u]) = SubSeq(req[u].data, 1, Written(u))
    /\ \A u \in Tasks :
          pc[u] = "stored" =>
              /\ Exists(files, path[u])
              /\ Content(files, path[u]) = req[u].data

\* C7's case: the detector raised after the prefix was read, the upload was
\* accepted by a later tier, and the whole stream, longer than the prefix,
\* was stored.
C7_Witness ==
    \E u \in Tasks :
        /\ MAGIC_AVAILABLE
        /\ swallowed[u] = "MagicException"
        /\ pc[u] = "stored"
        /\ Len(req[u].data) > CHUNK_SIZE_FOR_VALIDATION
        /\ Content(files, path[u]) = req[u].data

\* C8: save_file_to_disk runs only for a request whose type was validated;
\* a request the classifier rejected has no destination path and has written
\* nothing; and before the first run of save_file_to_disk there is no owner
\* directory, no file and no document.
C8_StoreOnlyAfterValidation ==
    /\ \A u \in Tasks :
          pc[u] \in StorePcs \cup {"validated"} => mime[u] \in ALLOWED_MIME_TYPES
    /\ \A u \in Tasks :
          ClassifierRejected(u) =>
              /\ mime[u] = None
              /\ path[u] = NoPath
              /\ total[u] = 0
    /\ nextId = 1 => (dirs = {} /\ files = {} /\ db = {} /\ log = {})

\* C8's case: data.exe was sent twice and rejected twice, and there is no
\* directory, file or document.
C8_Witness ==
    /\ ClassifierRejected(1)
    /\ req[1].filename = "data.exe"
    /\ resend[1] = 0
    /\ dirs = {} /\ files = {} /\ db = {}

\* C9: of two uploads of one owner handled at once, neither fails on the
\* owner's directory, their paths differ, the file of each holds its own
\* bytes and no others while it is written, and each upload within the limit
\* that no I/O fault, database fault or cancellation hits ends with its
\* document and its whole stream on disk.
C9_ConcurrentUploads ==
    (\A u \in Tasks : req[u] # NoReq) =>
        /\ \A u \in Tasks : resp[u].arg # "FileExistsError"
        /\ (path[1] # NoPath /\ path[2] # NoPath) => path[1] # path[2]
        /\ \A u \in Tasks :
              pc[u] \in {"read", "write", "abort"} =>
                  /\ Exists(files, path[u])
                  /\ Content(files, path[u]) = SubSeq(req[u].data, 1, Written(u))
        /\ \A u \in Tasks :
              ( /\ pc[u] = "done"
                /\ Len(req[u].data) <= MAX_FILE_SIZE
                /\ resp[u].kind # "cancelled"
                /\ resp[u].arg \notin {"OSError", "SQLAlchemyError"} )
              => /\ resp[u].kind = "ok"
                 /\ Exists(files, path[u])
                 /\ Content(files, path[u]) = req[u].data

\* C9's case: both uploads are in the middle of their writes, the second
\* mkdir has passed, one is about to clean up and the other holds a chunk.
C9_Witness ==
    /\ pc[1] = "write"
    /\ pc[2] = "abort"
    /\ dirs = {OWNER}
    /\ path[1][2] = 2
    /\ path[2][2] = 1
    /\ Len(Content(files, path[2])) = MAX_FILE_SIZE

\* C10: a chunk is counted and compared before it is written, a chunk that
\* takes the total over MAX_FILE_SIZE is not written, no file holds more
\* than MAX_FILE_SIZE bytes, and a task holds at most CHUNK_SIZE bytes.
C10_CheckedBeforeWritten ==
    /\ \A f \in files : Len(f.data) <= MAX_FILE_SIZE
    /\ \A u \in Tasks : Len(chunk[u]) <= CHUNK_SIZE
    /\ \A u \in Tasks :
          (pc[u] \in {"write", "abort"} /\ Exists(files, path[u])) =>
              /\ total[u] = Len(Content(files, path[u])) + Len(chunk[u])
              /\ pc[u] = "write" <=> total[u] <= MAX_FILE_SIZE

\* C10's case: MAX_FILE_SIZE bytes are written and the chunk that goes over
\* the limit is held, not written.
C10_Witness ==
    \E u \in Tasks :
        /\ pc[u] = "abort"
        /\ chunk[u] # << >>
        /\ Len(Content(files, path[u])) = MAX_FILE_SIZE
        /\ total[u] > MAX_FILE_SIZE

\* C11: a stream of L <= MAX_FILE_SIZE bytes is never taken for too large;
\* when its loop ends, L bytes are counted and the file holds the stream;
\* the count save_file_to_disk returns is L and the file at the returned
\* path holds exactly the stream; for L = 0 no chunk is written and the
\* file exists and is empty.
C11_ReturnsWholeStream ==
    /\ \A r \in log :
          r.outcome = "returned" =>
              /\ r.n = Len(req[r.task].data)
              /\ r.n <= MAX_FILE_SIZE
              /\ Exists(files, r.path)
              /\ Content(files, r.path) = req[r.task].data
    /\ \A u \in Tasks :
          (pc[u] \in StorePcs /\ Len(req[u].data) <= MAX_FILE_SIZE) =>
              /\ pc[u] # "abort"
              /\ exc[u] # "HTTP413"
              /\ (pc[u] = "aexit" /\ exc[u] = None) =>
                    /\ total[u] = Len(req[u].data)
                    /\ Exists(files, path[u])
                    /\ Content(files, path[u]) = req[u].data
    /\ \A u \in Tasks :
          (pc[u] \in StorePcs /\ req[u].data = << >>) =>
              /\ pc[u] # "write"
              /\ total[u] = 0
              /\ pc[u] = "stored" =>
                    /\ Exists(files, path[u])
                    /\ Content(files, path[u]) = << >>

\* C11's case: a stream of exactly MAX_FILE_SIZE bytes was stored and its
\* length returned.
C11_Witness ==
    \E r \in log :
        /\ r.outcome = "returned"
        /\ r.n = MAX_FILE_SIZE
        /\ pc[r.task] = "stored"
        /\ Content(files, r.path) = req[r.task].data

\* C12: a request that fails by a classifier rejection or inside
\* save_file_to_disk (directory creation, size limit, open, read, write)
\* ends with an HTTPException whose status is that of its taxonomy member:
\* 400 for the type, 413 for the size, 500 for storage.
C12_TypedRejections ==
    \A u \in Tasks :
        ( /\ pc[u] = "done"
          /\ resp[u].kind \notin {"ok", "cancelled"}
          /\ mime[u] # None
          /\ resp[u].arg # "SQLAlchemyError" )
        => /\ resp[u].kind = "HTTPException"
           /\ resp[u].status = IF total[u] > MAX_FILE_SIZE THEN 413 ELSE 500

\* C14: when a request that was not cancelled has ended, its file is on
\* disk exactly if a Document row names it, and that row carries the path
\* and the count save_file_to_disk returned, the validated type and the
\* status pending.
C14_FileIffRecord ==
    \A u \in Tasks :
        (pc[u] = "done" /\ resp[u].kind # "cancelled" /\ path[u] # NoPath) =>
            /\ Exists(files, path[u]) <=> \E d \in db : d.file_path = path[u]
            /\ \A d \in db :
                  d.file_path = path[u] =>
                      /\ d.file_size = total[u]
                      /\ d.mime_type = mime[u]
                      /\ d.status = "pending"

\* The awaits of a run of save_file_to_disk that has not ended.
ActivePcs == {"validated", "open", "read", "write", "abort", "aexit"}

\* The state of a run in the words of the design: Idle until the file is
\* open, Opened until the first read, Writing in the loop and at its exit.
StoreState(p, position) ==
    CASE p \in {"validated", "open"} -> "Idle"
      [] p = "read" /\ position = 0 -> "Opened"
      [] p = "read" /\ position # 0 -> "Writing"
      [] p \in {"write", "abort", "aexit"} -> "Writing"
      [] p = "stored" -> "Closed-Success"
      [] p = "done" -> "Aborted-Cleanup"
      [] OTHER -> "None"

\* The moves of a run between those states; a run that cannot create the
\* directory or open the file aborts from Idle.
StoreMoves ==
    { <<"Idle", "Idle">>, <<"Idle", "Opened">>, <<"Idle", "Aborted-Cleanup">>,
      <<"Opened", "Writing">>, <<"Writing", "Writing">>,
      <<"Writing", "Closed-Success">>, <<"Writing", "Aborted-Cleanup">> }

\* The moves between the awaits: the loop reads, compares, then writes.
PcMoves ==
    { <<"validated", "open">>, <<"validated", "done">>, <<"open", "read">>,
      <<"open", "done">>, <<"read", "write">>, <<"read", "abort">>,
      <<"read", "aexit">>, <<"write", "read">>, <<"write", "aexit">>,
      <<"abort", "aexit">>, <<"aexit", "stored">>, <<"aexit", "done">> }

\* What a run has left to do: the bytes not yet read, and the awaits up to
\* the end of the current turn of the loop.
Variant(p, position, data) ==
    4 * (Len(data) - position)
      + ( CASE p = "validated" -> 7
            [] p = "open" -> 6
            [] p = "read" -> 5
            [] p = "write" -> 6
            [] p = "abort" -> 4
            [] p = "aexit" -> 3
            [] p = "stored" -> 1
            [] OTHER -> 0 )

\* A step of u's run of save_file_to_disk that neither a fault nor a
\* cancellation has to help.
StoreStep(u) ==
    \/ StoreBegin(u)
    \/ OpenFile(u)
    \/ ReadChunk(u)
    \/ WriteChunk(u)
    \/ AbortTooLarge(u)
    \/ ExitFile(u)

\* C13, in every state: a run has one end (one record per path); what is on
\* disk while the loop runs is the stream up to the bytes written, each
\* once; a run that has not ended can take a step and has a bounded number
\* of steps left.
OneRunInv ==
    /\ \A r1, r2 \in log : r1.path = r2.path => r1 = r2
    /\ \A u \in Tasks :
          (pc[u] \in {"read", "write", "abort"} /\ Exists(files, path[u])) =>
              Content(files, path[u]) = SubSeq(req[u].data, 1, Written(u))
    /\ \A u \in Tasks :
          pc[u] \in ActivePcs =>
              /\ ENABLED StoreStep(u)
              /\ Variant(pc[u], pos[u], req[u].data) >= 0

\* C13, in every step.
OneRunStep ==
    /\ \A u \in Tasks :
          (pc[u] \in ActivePcs /\ pc'[u] # pc[u]) =>
              /\ <<pc[u], pc'[u]>> \in PcMoves
              /\ <<StoreState(pc[u], pos[u]), StoreState(pc'[u], pos'[u])>>
                    \in StoreMoves
              /\ pos'[u] >= pos[u]
              /\ Variant(pc'[u], pos'[u], req'[u].data)
                    < Variant(pc[u], pos[u], req[u].data)
              /\ (pc[u] = "read" /\ pc'[u] \in {"write", "abort"}) =>
                    /\ pos'[u] > pos[u]
                    /\ chunk'[u] = SubSeq(req[u].data, pos[u] + 1, pos'[u])
    /\ \A u \in Tasks :
          (pc[u] = "stored" /\ pc'[u] # "recv") =>
              /\ pc'[u] \in {"stored", "done"}
              /\ path'[u] = path[u]
              /\ total'[u] = total[u]
              /\ pos'[u] = pos[u]
    /\ \A r \in log :
          /\ r \in log'
          /\ Exists(files', r.path) <=> Exists(files, r.path)
          /\ Exists(files, r.path) => Content(files', r.path) = Content(files, r.path)

\* C13: a run of save_file_to_disk moves Idle -> Opened -> Writing (read,
\* compare, write, again) and on to one end, Closed-Success or
\* Aborted-Cleanup; it never goes back to a state it left, never rewinds
\* the stream, reads and writes no chunk twice, always has a step to take
\* and fewer steps left after each, and once ended its record and its file
\* change no more.
C13_OneRunToOneTerminal == [](OneRunInv) /\ [][OneRunStep]_vars

\* C13's case: a run went round the loop more than once and returned, and
\* its request has ended.
C13_Witness ==
    \E u \in Tasks :
        /\ pc[u] = "done"
        /\ resp[u].kind = "ok"
        /\ Len(req[u].data) > CHUNK_SIZE
        /\ \E r \in log : r.path = path[u] /\ r.outcome = "returned"

====
